---- MODULE Spec2Model ----
(***************************************************************************)
(* Model of atomchain/mlpot.py: the backend selector init_calc, the        *)
(* relaxation procedure relax_with_ml, the phonon procedure phonon_with_ml *)
(* and the band-gap predictor MatGLGapPredictor.                           *)
(*                                                                         *)
(* Strings that the code case-folds are sequences of one-character         *)
(* strings, so that str.lower() is computed and not assumed.  Calls into   *)
(* third-party libraries are recorded as events in the log of the call.    *)
(***************************************************************************)
EXTENDS Integers, Sequences, FiniteSets, TLC

VARIABLES heap, files, imported, predictors, last

vars == <<heap, files, imported, predictors, last>>

\* Python's None where a string is expected (model_path, rattle, an observer).
None == "<None>"

Range(s) == {s[i] : i \in DOMAIN s}

-----------------------------------------------------------------------------
\* str.lower()

UpperChars == <<"A","B","C","D","E","F","G","H","I","J","K","L","M",
                "N","O","P","Q","R","S","T","U","V","W","X","Y","Z">>

LowerChars == <<"a","b","c","d","e","f","g","h","i","j","k","l","m",
                "n","o","p","q","r","s","t","u","v","w","x","y","z">>

Digits == <<"0","1","2","3","4","5","6","7","8","9">>

Chars == Range(UpperChars) \cup Range(LowerChars) \cup Range(Digits)

\* The lower-case form of every character: letters A-Z map to a-z, every
\* other character to itself.
LowerChar ==
    [c \in Chars |->
        IF \E i \in DOMAIN UpperChars : UpperChars[i] = c
        THEN LowerChars[CHOOSE i \in DOMAIN UpperChars : UpperChars[i] = c]
        ELSE c]

\* A comparison that folds no case: the tag as written.
LowerIdentity(s) == s

Lower(s) == [i \in DOMAIN s |-> LowerChar[s[i]]]

\* The four tags the selector compares against.
TagMatgl  == <<"m","a","t","g","l">>
TagM3gnet == <<"m","3","g","n","e","t">>
TagChgnet == <<"c","h","g","n","e","t">>
TagDeepmd == <<"d","e","e","p","m","d">>

\* Tags a caller may pass: the four backends in lower and mixed case, and
\* strings that are no backend.
Tags ==
    { TagMatgl, TagM3gnet, TagChgnet, TagDeepmd,
      <<"M","a","t","G","L">>, <<"M","3","G","N","E","T">>,
      <<"C","H","G","N","e","t">>, <<"D","e","e","p","M","D">>,
      <<"l","d","a">>, <<"c","h","g","n","e","t","2">>, <<>> }

ModelPaths == {None, "/models/a"}

-----------------------------------------------------------------------------
\* Calculator objects

NoCalc == [cls |-> "None", model |-> None, opt |-> ""]

UserCalc == [cls |-> "UserCalculator", model |-> "user", opt |-> ""]

PotentialName == "M3GNet-MP-2021.2.8-PES"

Ev(name, a) == [ev |-> name, arg |-> a]

\* init_calc(model_type, model_path) run with the set imp of imported
\* modules: the error raised ("" when none), the calculator returned, the
\* modules imported afterwards and the library calls made, in order.
InitCalc(imp, model_type, model_path) ==
    LET lowered == Lower(model_type) IN
    IF lowered = TagMatgl THEN
        [raised |-> "",
         ret |-> [cls |-> "matgl.ext.ase.M3GNetCalculator",
                  model |-> PotentialName, opt |-> "stress_weight=1.0"],
         imported |-> imp \cup {"matgl", "matgl.ext.ase"},
         log |-> << Ev("matgl.load_model", PotentialName),
                    Ev("matgl.ext.ase.M3GNetCalculator", PotentialName) >>]
    ELSE IF lowered = TagM3gnet THEN
        [raised |-> "",
         ret |-> [cls |-> "m3gnet.models.M3GNetCalculator",
                  model |-> model_path, opt |-> "compute_stress=True"],
         imported |-> imp \cup {"m3gnet.models"},
         log |-> << IF model_path = None
                    THEN Ev("m3gnet.models.M3GNet.load", None)
                    ELSE Ev("m3gnet.models.M3GNet.from_dir", model_path),
                    Ev("m3gnet.models.Potential", model_path),
                    Ev("m3gnet.models.M3GNetCalculator", model_path) >>]
    ELSE IF lowered = TagChgnet THEN
        [raised |-> "",
         ret |-> [cls |-> "chgnet.model.dynamics.CHGNetCalculator",
                  model |-> None, opt |-> ""],
         imported |-> imp \cup {"chgnet.model.dynamics"},
         log |-> << Ev("chgnet.model.dynamics.CHGNetCalculator", None) >>]
    ELSE IF lowered = TagDeepmd THEN
        [raised |-> "",
         ret |-> [cls |-> "deepmd.calculator.DP",
                  model |-> model_path, opt |-> ""],
         imported |-> imp \cup {"deepmd.calculator"},
         log |-> << Ev("deepmd.calculator.DP", model_path) >>]
    ELSE
        [raised |-> "ValueError", ret |-> NoCalc, imported |-> imp,
         log |-> << >>]

-----------------------------------------------------------------------------
\* State

\* An ase.Atoms object: positions and cell as abstract values, the attached
\* constraints and the attached calculator.
AtomsObj(p, c, cons, k) ==
    [pos |-> p, cell |-> c, constraints |-> cons, calc |-> k]

\* A file: whether it exists and the frames written to it.
NoFile == [exists |-> FALSE, frames |-> << >>]

TrajPaths == {"relax.traj", "run2.traj"}

NoCall == [op |-> "none"]

InitSel ==
    /\ heap = (1 :> AtomsObj(0, 0, << >>, NoCalc))
    /\ files = [p \in TrajPaths |-> NoFile]
    /\ imported = {}
    /\ predictors = << >>
    /\ last = NoCall

-----------------------------------------------------------------------------
\* Calculator argument of relax_with_ml and phonon_with_ml: omitted (None),
\* a backend tag, or a calculator object.

ArgNone == [t |-> "none", s |-> << >>, c |-> NoCalc]
ArgTag(tag) == [t |-> "str", s |-> tag, c |-> NoCalc]
ArgObj(k) == [t |-> "obj", s |-> << >>, c |-> k]

CalcArgs == {ArgNone, ArgObj(UserCalc)} \cup {ArgTag(tag) : tag \in Tags}

\* One invocation of the selector by a procedure, with what it was given.
Selected(r, tag, path) ==
    [raised |-> r.raised, ret |-> r.ret, imported |-> r.imported,
     log |-> r.log, sel |-> << [tag |-> tag, model_path |-> path] >>]

\* relax_with_ml, resolution of calc.
ResolveCalcRelax(imp, calc, model_path) ==
    IF calc.t = "str"
    THEN Selected(InitCalc(imp, calc.s, model_path), calc.s, model_path)
    ELSE IF calc.t = "none"
    THEN Selected(InitCalc(imp, TagChgnet, None), TagChgnet, None)
    ELSE [raised |-> "", ret |-> calc.c, imported |-> imp, log |-> << >>,
          sel |-> << >>]

-----------------------------------------------------------------------------
\* relax_with_ml

\* Force thresholds are counted in units of 0.001, the default of fmax.
FmaxDefault == 1

CellFactorDefault == 1000

MaxSteps == 1

NoRattle == [given |-> FALSE, stdev |-> 0]

Rattles == {NoRattle, [given |-> TRUE, stdev |-> 1]}

\* atoms.rattle(stdev): a displacement of every position, fixed by stdev.
Rattle(pos, stdev) == pos + stdev

\* Geometries the optimizer may move the configuration to.
OptVals == {2, 3}

\* What the optimizer does in one call of relax_with_ml: the steps each of
\* the up to three runs takes and the geometry the steps lead to.
Outcomes(relax_cell) ==
    IF relax_cell
    THEN [s1 : 0..MaxSteps, s2 : 0..MaxSteps, s3 : 0..MaxSteps, to : OptVals]
    ELSE [s1 : {0}, s2 : {0}, s3 : 0..MaxSteps, to : OptVals]

\* catoms = atoms, without the copy: the caller's own object.
AliasId(h, atoms) == atoms

\* The identity of the object atoms.copy() returns: a new object.
CopyId(h, atoms) == CHOOSE n \in 1..(Cardinality(DOMAIN h) + 1) : n \notin DOMAIN h

\* atoms.copy(): positions, cell and constraints are copied, the calculator
\* is not.
AtomsCopy(h, atoms) ==
    LET c == CopyId(h, atoms) IN
    h @@ (c :> [h[atoms] EXCEPT !.calc = NoCalc])

\* A first pass with no coarser threshold.
SameFmax(fmax) == fmax

\* The threshold of the first pass of a cell relaxation.
CoarseFmax(fmax) == fmax * 10

\* Number of optimizer runs recorded in a log.
NRuns(log) == Cardinality({i \in DOMAIN log : log[i].ev = "FIRE.run"})

\* opt.run(fmax=thr) of a FIRE optimizer over `on` (the cell filter or the
\* atoms) taking n steps, with observer obs attached (None: no observer).
\* Every step moves the configuration and calls the attached observer,
\* which writes a frame.
OptRun(st, catoms, on, thr, n, obs, nd) ==
    LET k == NRuns(st.log) + 1
        moved == IF n = 0 THEN st.heap
                 ELSE IF on = "UnitCellFilter"
                 THEN [st.heap EXCEPT ![catoms].pos = nd.to,
                                      ![catoms].cell = nd.to]
                 ELSE [st.heap EXCEPT ![catoms].pos = nd.to]
        written == IF obs = None THEN st.files
                   ELSE [st.files EXCEPT ![obs].frames =
                            @ \o [j \in 1..n |-> [run |-> k, step |-> j]]]
    IN [heap |-> moved, files |-> written,
        log |-> Append(st.log, [ev |-> "FIRE.run", on |-> on, fmax |-> thr,
                                steps |-> n, obs |-> obs, run |-> k])]

\* Trajectory(traj_file, "w", catoms): the file is created or truncated.
TrajectoryOpen(st, traj_file) ==
    [st EXCEPT !.files[traj_file] = [exists |-> TRUE, frames |-> << >>],
               !.log = Append(@, Ev("Trajectory", traj_file))]

\* catoms.calc = calc, and with sym catoms.set_constraint(FixSymmetry(catoms)).
Attach(h, catoms, calc, sym) ==
    IF sym
    THEN [h EXCEPT ![catoms].calc = calc,
                   ![catoms].constraints = << "FixSymmetry" >>]
    ELSE [h EXCEPT ![catoms].calc = calc]

\* ecf = UnitCellFilter(catoms, cell_factor=cell_factor).
CellFilter(st, cell_factor) ==
    [st EXCEPT !.log = Append(@, [ev |-> "UnitCellFilter",
                                  cell_factor |-> cell_factor])]

\* The closing lines of relax_with_ml: the trajectory is opened and attached
\* to the optimizer at hand, which is run to fmax.
FinalRun(st, catoms, on, traj_file, fmax, nd) ==
    OptRun(TrajectoryOpen(st, traj_file), catoms, on, fmax, nd.s3, traj_file, nd)

\* The optimization of relax_with_ml from state st = [heap, files, log].
Optimize(st, catoms, relax_cell, traj_file, fmax, cell_factor, nd) ==
    IF relax_cell
    THEN FinalRun(OptRun(OptRun(CellFilter(st, cell_factor), catoms,
                                "UnitCellFilter", CoarseFmax(fmax), nd.s1,
                                None, nd),
                         catoms, "UnitCellFilter", fmax, nd.s2, None, nd),
                  catoms, "UnitCellFilter", traj_file, fmax, nd)
    ELSE FinalRun(st, catoms, "Atoms", traj_file, fmax, nd)

\* return catoms, after the optimization has left state st.
Returned(st, catoms, r) ==
    [raised |-> "", ret |-> catoms, heap |-> st.heap, files |-> st.files,
     imported |-> r.imported, log |-> st.log, sel |-> r.sel]

\* relax_with_ml once the copy catoms is made (heap h, rattled if asked) and
\* the calculator resolved with result r; entry records the call.
Relax(w, h, catoms, r, entry, relax_cell, sym, traj_file, fmax, cell_factor, nd) ==
    IF r.raised # "" THEN
        [raised |-> r.raised, ret |-> 0, heap |-> h, files |-> w.files,
         imported |-> r.imported, log |-> <<entry>> \o r.log, sel |-> r.sel]
    ELSE
        Returned(Optimize([heap |-> Attach(h, catoms, r.ret, sym),
                           files |-> w.files,
                           log |-> <<entry>> \o r.log \o
                                   (IF sym THEN << Ev("FixSymmetry", None) >>
                                    ELSE << >>)],
                          catoms, relax_cell, traj_file, fmax, cell_factor, nd),
                 catoms, r)

\* catoms = atoms.copy(), rattled when rattle is given: the heap with the
\* copy c in it.
Copied(h, atoms, c, rattle) ==
    IF rattle.given
    THEN [AtomsCopy(h, atoms) EXCEPT ![c].pos = Rattle(@, rattle.stdev)]
    ELSE AtomsCopy(h, atoms)

\* The body of relax_with_ml in world w = [heap, files, imported].
RelaxWithMl(w, atoms, calc, relax_cell, sym, traj_file, model_path, fmax, cell_factor, rattle, nd) ==
    Relax(w, Copied(w.heap, atoms, CopyId(w.heap, atoms), rattle),
          CopyId(w.heap, atoms),
          ResolveCalcRelax(w.imported, calc, model_path),
          [ev |-> "relax_with_ml", atoms |-> atoms, calc |-> calc,
           relax_cell |-> relax_cell, sym |-> sym, traj_file |-> traj_file,
           model_path |-> model_path, fmax |-> fmax,
           cell_factor |-> cell_factor, rattle |-> rattle],
          relax_cell, sym, traj_file, fmax, cell_factor, nd)

-----------------------------------------------------------------------------
\* phonon_with_ml

NpointsDefault == 100

\* The defaults of relax_with_ml's parameters.
RelaxDefaults ==
    [relax_cell |-> TRUE, sym |-> TRUE, traj_file |-> "relax.traj",
     model_path |-> None, fmax |-> FmaxDefault,
     cell_factor |-> CellFactorDefault, rattle |-> NoRattle]

\* A resolution that recovers from an unknown tag by taking the default
\* backend.
ResolveCalcOrChgnet(imp, calc) ==
    IF calc.t = "str" /\ InitCalc(imp, calc.s, None).raised = ""
    THEN Selected(InitCalc(imp, calc.s, None), calc.s, None)
    ELSE IF calc.t \in {"str", "none"}
    THEN Selected(InitCalc(imp, TagChgnet, None), TagChgnet, None)
    ELSE [raised |-> "", ret |-> calc.c, imported |-> imp, log |-> << >>,
          sel |-> << >>]

\* phonon_with_ml, resolution of calc.
ResolveCalcPhonon(imp, calc) ==
    IF calc.t = "str"
    THEN Selected(InitCalc(imp, calc.s, None), calc.s, None)
    ELSE IF calc.t = "none"
    THEN Selected(InitCalc(imp, TagChgnet, None), TagChgnet, None)
    ELSE [raised |-> "", ret |-> calc.c, imported |-> imp, log |-> << >>,
          sel |-> << >>]

\* The defaults of the options given to calculate_phonon.
PhonDefaults ==
    [forces_set_file |-> "None", ndim |-> "diag([2,2,2])",
     primitive_matrix |-> "eye(3)", distance |-> "0.05",
     factor |-> "VaspToTHz", is_plusminus |-> "auto",
     is_symmetry |-> "True", symprec |-> "1e-3", func |-> "None",
     prepare_initial_wavecar |-> "False", skip |-> "None",
     restart |-> "False", parallel |-> "False", sc_mag |-> "None",
     mask_force |-> "[1,1,1]"]

\* A merge in which the defaults win (dict.setdefault for every key).
UpdateKeepingOld(d, kw) ==
    [k \in DOMAIN d \cup DOMAIN kw |-> IF k \in DOMAIN d THEN d[k] ELSE kw[k]]

\* dict.update: d with every key of kw set to kw's value.
Update(d, kw) ==
    [k \in DOMAIN d \cup DOMAIN kw |-> IF k \in DOMAIN kw THEN kw[k] ELSE d[k]]

\* Keyword overrides a caller may pass: any choice among these.
OverrideValues ==
    [distance |-> "0.02", symprec |-> "1e-5", model_path |-> "/models/a"]

Kwargs ==
    { [k \in keys |-> OverrideValues[k]] : keys \in SUBSET DOMAIN OverrideValues }

\* The result of the relaxation dropped: atoms is not rebound.
KeepCallerAtoms(relax, atoms, relaxed) == atoms

\* The configuration given to calculate_phonon: with relax, the name atoms
\* is rebound to what relax_with_ml returned.
PhononAtoms(relax, atoms, relaxed) == IF relax THEN relaxed ELSE atoms

\* atoms = relax_with_ml(atoms, calc): the world and log after it, with the
\* object it returned.
RelaxFirst(r, rx) ==
    [heap |-> rx.heap, files |-> rx.files, imported |-> rx.imported,
     log |-> r.log \o rx.log \o
             << [ev |-> "relax_with_ml.return", ret |-> rx.ret] >>,
     ret |-> rx.ret]

\* phonon_with_ml from the merge of the options on: calculate_phonon, then
\* the plot, in world w2 with `given` the configuration at hand.
PhononRun(w2, given, calc, plot, knames, kvectors, npoints, figname, kwargs) ==
    [raised |-> "", heap |-> w2.heap, files |-> w2.files,
     imported |-> IF plot
                  THEN w2.imported \cup {"pyDFTutils.phonon.plotphonopy"}
                  ELSE w2.imported,
     log |-> w2.log \o
             << [ev |-> "calculate_phonon", atoms |-> given,
                 config |-> w2.heap[given], calc |-> calc,
                 args |-> Update(PhonDefaults, kwargs)] >> \o
             (IF plot
              THEN << [ev |-> "plot_phonon", path |-> "./",
                       knames |-> knames, kvectors |-> kvectors,
                       npoints |-> npoints, figname |-> figname,
                       show |-> TRUE] >>
              ELSE << >>)]

\* phonon_with_ml once the calculator is resolved (r) and, with relax, the
\* relaxation done (w2).
Phonon(w2, atoms, r, relax, plot, knames, kvectors, npoints, figname, kwargs) ==
    (PhononRun(w2, PhononAtoms(relax, atoms, w2.ret), r.ret, plot, knames,
               kvectors, npoints, figname, kwargs))
        @@ [sel |-> r.sel]

\* The body of phonon_with_ml in world w = [heap, files, imported], the
\* calculator resolved with result r.
PhononResolved(w, atoms, r, relax, plot, knames, kvectors, npoints, figname, kwargs, nd) ==
    IF r.raised # "" THEN
        [raised |-> r.raised, heap |-> w.heap, files |-> w.files,
         imported |-> r.imported, log |-> r.log, sel |-> r.sel]
    ELSE IF relax THEN
        Phonon(RelaxFirst(r, RelaxWithMl(
                              [heap |-> w.heap, files |-> w.files,
                               imported |-> r.imported],
                              atoms, ArgObj(r.ret),
                              RelaxDefaults.relax_cell, RelaxDefaults.sym,
                              RelaxDefaults.traj_file, RelaxDefaults.model_path,
                              RelaxDefaults.fmax, RelaxDefaults.cell_factor,
                              RelaxDefaults.rattle, nd)),
               atoms, r, relax, plot, knames, kvectors, npoints, figname, kwargs)
    ELSE
        Phonon([heap |-> w.heap, files |-> w.files, imported |-> r.imported,
                log |-> r.log, ret |-> atoms],
               atoms, r, relax, plot, knames, kvectors, npoints, figname, kwargs)

\* The body of phonon_with_ml in world w = [heap, files, imported].
PhononWithMl(w, atoms, calc, relax, plot, knames, kvectors, npoints, figname, kwargs, nd) ==
    PhononResolved(w, atoms, ResolveCalcPhonon(w.imported, calc), relax, plot,
                   knames, kvectors, npoints, figname, kwargs, nd)

-----------------------------------------------------------------------------
\* Calls of the two procedures.  A behaviour is one call, made in a world
\* that holds the caller's configuration (object 1) and possibly trajectory
\* files of earlier runs.

InitAtoms ==
    { AtomsObj(0, 0, << >>, NoCalc), AtomsObj(1, 1, << "FixAtoms" >>, UserCalc) }

OldFile == [exists |-> TRUE, frames |-> << [run |-> 0, step |-> 0] >>]

InitFiles == { [p \in TrajPaths |-> NoFile], [p \in TrajPaths |-> OldFile] }

Fmaxes == {1, 2}

InitFlow ==
    /\ heap \in [{1} -> InitAtoms]
    /\ files \in InitFiles
    /\ imported = {}
    /\ predictors = << >>
    /\ last = NoCall

World == [heap |-> heap, files |-> files, imported |-> imported]

\* The caller's objects after a call: the objects it had before.
Kept(h) == [i \in DOMAIN heap |-> h[i]]

\* A call of relax_with_ml(atoms, calc, ...) by the user.
RelaxCall ==
    /\ last = NoCall
    /\ \E calc \in CalcArgs, relax_cell \in BOOLEAN, sym \in BOOLEAN,
          traj_file \in TrajPaths, model_path \in ModelPaths,
          fmax \in Fmaxes, rattle \in Rattles :
        \E nd \in Outcomes(relax_cell) :
            LET r == RelaxWithMl(World, 1, calc, relax_cell, sym, traj_file,
                                 model_path, fmax, CellFactorDefault, rattle,
                                 nd)
            IN
            /\ heap' = Kept(r.heap)
            /\ files' = r.files
            /\ imported' = r.imported
            /\ last' = [op |-> "relax_with_ml", atoms |-> 1, calc |-> calc,
                        relax_cell |-> relax_cell, sym |-> sym,
                        traj_file |-> traj_file, model_path |-> model_path,
                        fmax |-> fmax, rattle |-> rattle,
                        before |-> World, raised |-> r.raised,
                        ret |-> r.ret,
                        result |-> IF r.raised = "" THEN r.heap[r.ret]
                                   ELSE heap[1],
                        log |-> r.log, sel |-> r.sel]
            /\ UNCHANGED predictors

\* A call of phonon_with_ml(atoms, calc, relax, plot, **kwargs) by the user.
PhononCall ==
    /\ last = NoCall
    /\ \E calc \in CalcArgs, relax \in BOOLEAN, plot \in BOOLEAN,
          kwargs \in Kwargs :
        \E nd \in Outcomes(relax) :
            LET r == PhononWithMl(World, 1, calc, relax, plot, None, None,
                                  NpointsDefault, "phonon.pdf", kwargs, nd)
            IN
            /\ heap' = Kept(r.heap)
            /\ files' = r.files
            /\ imported' = r.imported
            /\ last' = [op |-> "phonon_with_ml", atoms |-> 1, calc |-> calc,
                        relax |-> relax, plot |-> plot, kwargs |-> kwargs,
                        before |-> World, raised |-> r.raised,
                        log |-> r.log, sel |-> r.sel]
            /\ UNCHANGED predictors

NextRelax == RelaxCall

SpecRelax == InitFlow /\ [][NextRelax]_vars

NextPhonon == PhononCall

SpecPhonon == InitFlow /\ [][NextPhonon]_vars

NextCalls == RelaxCall \/ PhononCall

SpecCalls == InitFlow /\ [][NextCalls]_vars

-----------------------------------------------------------------------------
\* MatGLGapPredictor

XCdict == ("PBE" :> 0) @@ ("GLLB-SC" :> 1) @@ ("HSE" :> 2) @@ ("SCAN" :> 3)

\* Functional labels a caller may pass.
XCLabels == {"PBE", "GLLB-SC", "HSE", "SCAN", "LDA", "pbe"}

GapModelName == "MEGNet-MP-2019.4.1-BandGap-mfi"

NoModel == [name |-> None, owner |-> 0, seq |-> 0]

\* A predictor object before __init__ has run: no model, nothing loaded,
\* no prediction asked.  nloads counts the model loads made for the object
\* and calls the predict_gap calls on it.
BlankPredictor(id) == [id |-> id, model |-> NoModel, nloads |-> 0, calls |-> 0]

\* self._model = matgl.load_model(name): every load returns a new handle.
LoadModel(self) ==
    [self EXCEPT !.model = [name |-> GapModelName, owner |-> self.id,
                            seq |-> self.nloads + 1],
                 !.nloads = @ + 1]

\* MatGLGapPredictor.__init__ on the blank object self.
PredictorInit(imp, self) ==
    [self |-> LoadModel(self), imported |-> imp \cup {"matgl"},
     log |-> << Ev("matgl.load_model", GapModelName) >>]

\* XCdict.get(xc, 0): no error for an unknown label.
XCGetOrZero(xc) ==
    [raised |-> "", code |-> IF xc \in DOMAIN XCdict THEN XCdict[xc] ELSE 0]

\* XCdict[xc]: the code of the label, or KeyError.
XCLookup(xc) ==
    IF xc \in DOMAIN XCdict
    THEN [raised |-> "", code |-> XCdict[xc]]
    ELSE [raised |-> "KeyError", code |-> 0]

\* A predict_gap that loads the model again before using it.
ReloadedModel(self) == LoadModel(self)

\* The object whose _model predict_gap calls: self as it is.
ModelHolder(self) == self

\* Values the model may predict.
Gaps == {0, 2}

\* MatGLGapPredictor.predict_gap(atoms, xc) on self, the model answering
\* gap.
PredictGap(imp, self, config, xc, gap) ==
    LET imp1 == imp \cup {"torch", "pymatgen.io.ase"}
        struct == [ev |-> "AseAtomsAdaptor.get_structure", config |-> config]
        x == XCLookup(xc)
        holder == ModelHolder(self)
        counted == [holder EXCEPT !.calls = @ + 1]
    IN
    IF x.raised # "" THEN
        [raised |-> x.raised, ret |-> 0, imported |-> imp1,
         self |-> [self EXCEPT !.calls = @ + 1], log |-> <<struct>>]
    ELSE
        [raised |-> "", ret |-> gap, imported |-> imp1, self |-> counted,
         log |-> << struct,
                    [ev |-> "torch.tensor", code |-> x.code],
                    [ev |-> "predict_structure", model |-> holder.model,
                     structure |-> config, state_feats |-> x.code] >>]

MaxPredictors == 2

MaxCalls == 2

InitGap ==
    /\ heap \in [{1} -> InitAtoms]
    /\ files = [p \in TrajPaths |-> NoFile]
    /\ imported = {}
    /\ predictors = << >>
    /\ last = NoCall

\* MatGLGapPredictor() by the user, who keeps the object.
NewPredictor ==
    /\ Len(predictors) < MaxPredictors
    /\ LET r == PredictorInit(imported, BlankPredictor(Len(predictors) + 1)) IN
        /\ predictors' = Append(predictors, r.self)
        /\ imported' = r.imported
        /\ last' = [op |-> "MatGLGapPredictor", inst |-> r.self.id,
                    raised |-> "", log |-> r.log]
    /\ UNCHANGED <<heap, files>>

\* p.predict_gap(atoms, xc) by the user on a predictor p it keeps.
PredictGapCall ==
    \E i \in DOMAIN predictors, xc \in XCLabels, gap \in Gaps :
        /\ predictors[i].calls < MaxCalls
        /\ LET r == PredictGap(imported, predictors[i], heap[1], xc, gap) IN
            /\ predictors' = [predictors EXCEPT ![i] = r.self]
            /\ imported' = r.imported
            /\ last' = [op |-> "MatGLGapPredictor.predict_gap", inst |-> i,
                        xc |-> xc, raised |-> r.raised, ret |-> r.ret,
                        log |-> r.log]
        /\ UNCHANGED <<heap, files>>

\* The module-level predict_gap(atoms, xc): a predictor of its own for the
\* one call.
PredictGapFunction ==
    \E xc \in XCLabels, gap \in Gaps :
        LET p == PredictorInit(imported, BlankPredictor(0))
            r == PredictGap(p.imported, p.self, heap[1], xc, gap)
        IN
        /\ imported' = r.imported
        /\ last' = [op |-> "predict_gap", inst |-> 0, xc |-> xc,
                    raised |-> r.raised, ret |-> r.ret,
                    log |-> p.log \o r.log]
        /\ UNCHANGED <<heap, files, predictors>>

NextGap == NewPredictor \/ PredictGapCall \/ PredictGapFunction

SpecGap == InitGap /\ [][NextGap]_vars

-----------------------------------------------------------------------------
\* A call of init_calc(model_type, model_path) by the user.
InitCalcCall ==
    \E model_type \in Tags, model_path \in ModelPaths :
        LET r == InitCalc(imported, model_type, model_path) IN
        /\ imported' = r.imported
        /\ last' = [op |-> "init_calc", model_type |-> model_type,
                    model_path |-> model_path, before |-> imported,
                    raised |-> r.raised, ret |-> r.ret, log |-> r.log]
        /\ UNCHANGED <<heap, files, predictors>>

NextSel == InitCalcCall

SpecSel == InitSel /\ [][NextSel]_vars

-----------------------------------------------------------------------------
\* Properties

\* a and b are the same string up to the case of their letters.
SameUpToCase(a, b) ==
    /\ Len(a) = Len(b)
    /\ \A i \in DOMAIN a :
          \/ a[i] = b[i]
          \/ \E j \in DOMAIN UpperChars :
                {a[i], b[i]} = {UpperChars[j], LowerChars[j]}

\* The backend a tag names, "" when it names none.
BackendOf(tag) ==
    IF SameUpToCase(tag, <<"m","a","t","g","l">>) THEN "matgl"
    ELSE IF SameUpToCase(tag, <<"m","3","g","n","e","t">>) THEN "m3gnet"
    ELSE IF SameUpToCase(tag, <<"c","h","g","n","e","t">>) THEN "chgnet"
    ELSE IF SameUpToCase(tag, <<"d","e","e","p","m","d">>) THEN "deepmd"
    ELSE ""

\* The library calls that build the calculator of a backend, and its class.
BackendCalls(b) ==
    IF b = "matgl" THEN {"matgl.load_model", "matgl.ext.ase.M3GNetCalculator"}
    ELSE IF b = "m3gnet" THEN {"m3gnet.models.M3GNet.load",
                               "m3gnet.models.M3GNet.from_dir",
                               "m3gnet.models.Potential",
                               "m3gnet.models.M3GNetCalculator"}
    ELSE IF b = "chgnet" THEN {"chgnet.model.dynamics.CHGNetCalculator"}
    ELSE {"deepmd.calculator.DP"}

BackendClass(b) ==
    IF b = "matgl" THEN "matgl.ext.ase.M3GNetCalculator"
    ELSE IF b = "m3gnet" THEN "m3gnet.models.M3GNetCalculator"
    ELSE IF b = "chgnet" THEN "chgnet.model.dynamics.CHGNetCalculator"
    ELSE "deepmd.calculator.DP"

\* Positions in a log of the events of one name.
At(log, name) == {i \in DOMAIN log : log[i].ev = name}

\* The optimizer runs of a log, in order.
Runs(log) == SelectSeq(log, LAMBDA e : e.ev = "FIRE.run")

\* C1: init_calc returns, for a tag that names one of the four backends in
\* any letter case, a calculator of that backend built by that backend's
\* constructor calls only, without raising; for every other string it raises
\* ValueError having made no library call and imported no backend module.
C1_SelectorDispatch ==
    last.op = "init_calc" =>
        LET b == BackendOf(last.model_type) IN
        IF b # ""
        THEN /\ last.raised = ""
             /\ last.ret.cls = BackendClass(b)
             /\ last.log # << >>
             /\ \A i \in DOMAIN last.log : last.log[i].ev \in BackendCalls(b)
             /\ last.log[Len(last.log)].ev = BackendClass(b)
        ELSE /\ last.raised = "ValueError"
             /\ last.log = << >>
             /\ imported = last.before

\* A mixed-case tag has built its backend after another backend was built.
C1_Witness ==
    /\ last.op = "init_calc"
    /\ last.model_type = <<"D","e","e","p","M","D">>
    /\ last.raised = ""
    /\ last.ret.cls = "deepmd.calculator.DP"
    /\ "matgl" \in imported

\* C2: relax_with_ml leaves the caller's configuration as it was (positions,
\* cell, constraints, calculator), on return and on error; what it returns
\* is another object, and that object carries the calculator and the
\* symmetry constraint.
C2_CallerConfigurationUntouched ==
    last.op = "relax_with_ml" =>
        /\ heap[last.atoms] = last.before.heap[last.atoms]
        /\ last.raised = "" =>
              /\ last.ret # last.atoms
              /\ last.result.calc # NoCalc
              /\ last.sym => last.result.constraints = << "FixSymmetry" >>

\* A rattled, symmetry-constrained cell relaxation that moved the copy of a
\* configuration which had a calculator and a constraint of its own.
C2_Witness ==
    /\ last.op = "relax_with_ml"
    /\ last.raised = ""
    /\ last.rattle.given /\ last.sym /\ last.relax_cell
    /\ heap[1] = AtomsObj(1, 1, << "FixAtoms" >>, UserCalc)
    /\ last.result.pos \in OptVals
    /\ last.result.cell \in OptVals
    /\ last.result.calc.cls = "deepmd.calculator.DP"

\* C3: with relax=True, phonon_with_ml calls relax_with_ml on the caller's
\* configuration with the resolved calculator and the default settings, all
\* optimizer runs end before calculate_phonon is called, and
\* calculate_phonon is given the object relax_with_ml returned; with
\* relax=False no relaxation takes place and calculate_phonon is given the
\* caller's object.
C3_RelaxBeforePhonon ==
    (last.op = "phonon_with_ml" /\ last.raised = "") =>
        LET log == last.log
            cp == At(log, "calculate_phonon")
        IN
        /\ Cardinality(cp) = 1
        /\ \A c \in cp :
            IF last.relax
            THEN /\ \E i \in At(log, "relax_with_ml") :
                       /\ i < c
                       /\ log[i].atoms = last.atoms
                       /\ log[i].calc = ArgObj(log[c].calc)
                       /\ log[i].relax_cell /\ log[i].sym
                       /\ log[i].traj_file = "relax.traj"
                       /\ log[i].fmax = FmaxDefault
                       /\ log[i].cell_factor = CellFactorDefault
                       /\ ~ log[i].rattle.given
                 /\ \E j \in At(log, "relax_with_ml.return") :
                       /\ j < c
                       /\ \A k \in At(log, "FIRE.run") : k < j
                       /\ log[c].atoms = log[j].ret
                 /\ At(log, "FIRE.run") # {}
                 /\ log[c].atoms # last.atoms
                 /\ log[c].config.calc = log[c].calc
                 /\ (\E k \in At(log, "FIRE.run") : log[k].steps > 0)
                        => log[c].config.pos \in OptVals
            ELSE /\ At(log, "relax_with_ml") = {}
                 /\ At(log, "FIRE.run") = {}
                 /\ At(log, "Trajectory") = {}
                 /\ log[c].atoms = last.atoms
                 /\ log[c].config = heap[last.atoms]

\* A relax-first phonon call whose relaxation moved the configuration.
C3_Witness ==
    /\ last.op = "phonon_with_ml"
    /\ last.raised = ""
    /\ last.relax
    /\ \E k \in At(last.log, "FIRE.run") : last.log[k].steps > 0
    /\ \E c \in At(last.log, "calculate_phonon") :
          last.log[c].config.pos # heap[1].pos

\* C4: the options calculate_phonon receives are the defaults with the
\* caller's overrides put over them key by key: an overridden key has the
\* caller's value, a default key not overridden has its default, and no
\* other key is present.
C4_OverridesReplaceDefaults ==
    (last.op = "phonon_with_ml" /\ last.raised = "") =>
        \A c \in At(last.log, "calculate_phonon") :
            LET args == last.log[c].args IN
            /\ DOMAIN args = DOMAIN PhonDefaults \cup DOMAIN last.kwargs
            /\ \A k \in DOMAIN last.kwargs : args[k] = last.kwargs[k]
            /\ \A k \in DOMAIN PhonDefaults \ DOMAIN last.kwargs :
                  args[k] = PhonDefaults[k]
            /\ "symprec" \notin DOMAIN last.kwargs => args["symprec"] = "1e-3"
            /\ "distance" \notin DOMAIN last.kwargs => args["distance"] = "0.05"

\* Only distance is overridden.
C4_Witness ==
    /\ last.op = "phonon_with_ml"
    /\ last.raised = ""
    /\ DOMAIN last.kwargs = {"distance"}
    /\ \E c \in At(last.log, "calculate_phonon") :
          /\ last.log[c].args["distance"] = "0.02"
          /\ last.log[c].args["symprec"] = "1e-3"

\* The fixed code of a functional label.
CodeOf(xc) ==
    CASE xc = "PBE" -> 0 [] xc = "GLLB-SC" -> 1 [] xc = "HSE" -> 2
      [] xc = "SCAN" -> 3

\* C5: predict_gap gives the model the fixed code of the label (PBE 0,
\* GLLB-SC 1, HSE 2, SCAN 3); for any other label it raises KeyError and
\* the model's prediction has not been called.
C5_LabelCode ==
    last.op \in {"MatGLGapPredictor.predict_gap", "predict_gap"} =>
        LET calls == At(last.log, "predict_structure") IN
        IF last.xc \in {"PBE", "GLLB-SC", "HSE", "SCAN"}
        THEN /\ last.raised = ""
             /\ Cardinality(calls) = 1
             /\ \A c \in calls : last.log[c].state_feats = CodeOf(last.xc)
        ELSE /\ last.raised = "KeyError"
             /\ calls = {}

\* An unrecognized label on a predictor that has answered before.
C5_Witness ==
    /\ last.op = "MatGLGapPredictor.predict_gap"
    /\ last.xc = "LDA"
    /\ last.raised = "KeyError"
    /\ predictors[last.inst].calls = 2

\* C6: every predictor has had its model loaded once, at construction, and
\* holds that handle; predict_gap loads nothing and asks that handle.
C6_LoadedOnce ==
    /\ \A i \in DOMAIN predictors :
          /\ predictors[i].nloads = 1
          /\ predictors[i].model =
                [name |-> GapModelName, owner |-> i, seq |-> 1]
    /\ last.op = "MatGLGapPredictor.predict_gap" =>
          /\ At(last.log, "matgl.load_model") = {}
          /\ \A c \in At(last.log, "predict_structure") :
                last.log[c].model =
                    [name |-> GapModelName, owner |-> last.inst, seq |-> 1]
    /\ last.op = "predict_gap" =>
          Cardinality(At(last.log, "matgl.load_model")) = 1

\* The second prediction of the second of two predictors.
C6_Witness ==
    /\ Len(predictors) = 2
    /\ last.op = "MatGLGapPredictor.predict_gap"
    /\ last.inst = 2
    /\ last.raised = ""
    /\ predictors[2].calls = 2
    /\ predictors[1].calls >= 1

\* C7: every step of every optimizer run of a relax_with_ml call is a frame
\* of the trajectory file at traj_file.
C7_EveryStepRecorded ==
    (last.op = "relax_with_ml" /\ last.raised = "") =>
        \A k \in At(last.log, "FIRE.run") :
            \A j \in 1..last.log[k].steps :
                [run |-> last.log[k].run, step |-> j]
                    \in Range(files[last.traj_file].frames)

\* C8: with relax_cell the runs are made on the cell filter, the first to
\* 10*fmax, the second to fmax, and none after the first to anything but
\* fmax; without relax_cell there is one run, on the atoms, to fmax, and no
\* cell filter.  The last run is to fmax.
C8_Schedule ==
    (last.op = "relax_with_ml" /\ last.raised = "") =>
        LET R == Runs(last.log) IN
        /\ Len(R) >= 1
        /\ R[Len(R)].fmax = last.fmax
        /\ IF last.relax_cell
           THEN /\ Len(R) >= 2
                /\ R[1].fmax = 10 * last.fmax
                /\ R[2].fmax = last.fmax
                /\ \A i \in 2..Len(R) : R[i].fmax = last.fmax
                /\ \A i \in 1..Len(R) : R[i].on = "UnitCellFilter"
                /\ \E u \in At(last.log, "UnitCellFilter") :
                      \A k \in At(last.log, "FIRE.run") : u < k
           ELSE /\ Len(R) = 1
                /\ R[1].on = "Atoms"
                /\ At(last.log, "UnitCellFilter") = {}

\* A cell relaxation whose coarse and fine passes both took steps.
C8_Witness ==
    /\ last.op = "relax_with_ml"
    /\ last.raised = ""
    /\ last.relax_cell
    /\ last.fmax = 2
    /\ Runs(last.log)[1].steps > 0
    /\ Runs(last.log)[2].steps > 0

\* The model path a caller of phonon_with_ml supplies.
SuppliedModelPath(kwargs) ==
    IF "model_path" \in DOMAIN kwargs THEN kwargs["model_path"] ELSE None

\* C9: for a calc argument and a model path, phonon_with_ml builds its
\* calculator as relax_with_ml does: the same library calls with the same
\* arguments, the same calculator, the same error.
C9_SameResolution ==
    last.op = "phonon_with_ml" =>
        LET asRelax == ResolveCalcRelax(last.before.imported, last.calc,
                                        SuppliedModelPath(last.kwargs))
            built == IF last.raised = ""
                     THEN {last.log[c].calc :
                              c \in At(last.log, "calculate_phonon")}
                     ELSE {}
        IN
        /\ asRelax.raised = last.raised
        /\ last.raised = "" =>
              /\ built = {asRelax.ret}
              /\ SubSeq(last.log, 1, Len(asRelax.log)) = asRelax.log

\* C10: relax_with_ml and phonon_with_ml given a string that names no
\* backend raise ValueError, and nothing has happened: no optimizer run, no
\* trajectory file opened, the files as before, and in phonon_with_ml no
\* relaxation, no phonon calculation and no plot.
C10_BadTagNoEffect ==
    (/\ last.op \in {"relax_with_ml", "phonon_with_ml"}
     /\ last.calc.t = "str"
     /\ BackendOf(last.calc.s) = "") =>
        /\ last.raised = "ValueError"
        /\ files = last.before.files
        /\ imported = last.before.imported
        /\ At(last.log, "FIRE.run") = {}
        /\ At(last.log, "Trajectory") = {}
        /\ At(last.log, "UnitCellFilter") = {}
        /\ last.op = "phonon_with_ml" =>
              /\ At(last.log, "relax_with_ml") = {}
              /\ At(last.log, "calculate_phonon") = {}
              /\ At(last.log, "plot_phonon") = {}

\* A relax-first, plotting phonon call with an unknown tag, made where a
\* trajectory file exists.
C10_Witness ==
    /\ last.op = "phonon_with_ml"
    /\ last.calc = ArgTag(<<"l","d","a">>)
    /\ last.relax /\ last.plot
    /\ last.raised = "ValueError"
    /\ files["relax.traj"].exists

====
